---- MODULE Spec2Model ----
(***************************************************************************)
(* btop server (server/index.ts): the per-core CPU usage sampler with its  *)
(* previous-reading cache, the platform-dependent memory accounting, the   *)
(* process listing and the /api/metrics poll that composes them.           *)
(*                                                                         *)
(* JavaScript runs each handler to completion between awaits, so one       *)
(* action is the code between two awaits of one request.                   *)
(***************************************************************************)
EXTENDS Integers, Sequences, FiniteSets, TLC

VARIABLES
    prevCpuTimes,   \* index.ts:48, the module-level cache, a dense array
    host,           \* what platform() and totalmem() return in this run
    polls,          \* the /api/metrics requests in flight, each at an await
    lastResponse,   \* the response the server returned last
    cpuCall,        \* the getCpuUsage call under study: its inputs and output
    memCall,        \* the getMemoryInfo call under study: its inputs and output
    psCall,         \* the getProcesses call under study: its inputs and output
    snapCall,       \* the getSystemMetrics call under study, likewise
    client,         \* the browser: App and its useSystemMetrics hook
    table,          \* the browser: the ProcessTable component
    graph           \* the browser: the CpuGraph and MemoryGraph components

clientVars == <<client, table, graph>>

vars == <<prevCpuTimes, host, polls, lastResponse, cpuCall, memCall, psCall,
          snapCall, clientVars>>

(***************************************************************************)
(* Bounds of the model.                                                    *)
(***************************************************************************)
\* largest value of the user, sys and idle counters of a drawn reading
MaxTick == 2
\* largest value of the nice and irq counters of a drawn reading
MaxAux == 1
\* largest totalmem() and freemem(), in units of 16384 bytes
MaxMemPages == 4
\* largest page count a vm_stat line reports
MaxPages == 1
\* number of /api/metrics requests that can be in flight together
MaxPolls == 2
\* largest number of lines after the header in an enumerated ps output
MaxLines == 2
\* largest number of cores in an enumerated cpus() result
MaxCores == 2
\* number of ticks the OS counters advance while the server is observed
MaxClock == 3
\* number of requests the page issues while it is observed
MaxFetches == 3
\* number of metrics snapshots the graphs are shown
MaxUpdates == 62
\* largest pid of a row of the process table
MaxPid == 4

(***************************************************************************)
(* Numbers.  Math.round(x) is the integer nearest to x, a tie going up.    *)
(* The code always rounds (a / b) * 100 with integers a and b; the double  *)
(* (a / b) * 100 differs from the exact value 100a/b by far less than      *)
(* 1/(2b), so the rounding is the exact one unless 100a/b lies exactly on  *)
(* k + 1/2, which needs the reduced denominator of a/b to be 8, 40 or 200. *)
(* With 8 the double arithmetic is exact.  With 40 or 200 the quotient     *)
(* n/(8d), d = 5 or 25, is rounded to 53 bits: with m its binary exponent, *)
(* the quotient's error in units of its last place is decided by the       *)
(* remainder of n * 2^(49 - m) by d, and the product by 100 is rounded to  *)
(* 53 bits again, off the tie when that error is more than 0.32 units and  *)
(* the product stays below 128 * 2^m.  So (23 / 40) * 100 is               *)
(* 57.49999999999999 and rounds to 57, (41 / 40) * 100 is                  *)
(* 102.49999999999999 and rounds to 102, (-49 / 40) * 100 is               *)
(* -122.50000000000001 and rounds to -123.  A division by zero gives NaN   *)
(* for 0/0 and otherwise an infinity, which Math.round returns as it is.   *)
(***************************************************************************)
NaN == -1000000

Infinity == 2000000

Abs(x) == IF x < 0 THEN -x ELSE x

RECURSIVE GCD(_, _)
GCD(a, b) == IF b = 0 THEN a ELSE GCD(b, a % b)

RECURSIVE Pow2(_)
Pow2(e) == IF e = 0 THEN 1 ELSE 2 * Pow2(e - 1)

\* the binary exponent m of n/d: 2^m <= n/d < 2^(m + 1), for n, d > 0
RECURSIVE Exponent(_, _)
Exponent(n, d) ==
    IF n >= 2 * d THEN 1 + Exponent(n, 2 * d)
    ELSE IF n < d THEN Exponent(2 * n, d) - 1
    ELSE 0

\* where the double (n / dd) * 100 lies for n > 0 and n/dd reduced with dd
\* 40 or 200: -1 below the tie 100n/dd, 1 above it, 0 on it
TieSide(n, dd) ==
    LET d == dd \div 8
        m == Exponent(n, dd)
        below128 == IF m >= 0
                    THEN 25 * n < 32 * dd * Pow2(m)
                    ELSE 25 * n * Pow2(-m) < 32 * dd
        r == ((n % d) * (Pow2((49 - m) % 20) % d)) % d
    IN  IF ~below128 THEN 0
        ELSE IF 2 * r < d
        THEN (IF 100 * r > 32 * d THEN -1 ELSE 0)
        ELSE (IF 100 * (d - r) > 32 * d THEN 1 ELSE 0)

\* where the double (a / b) * 100 lies for b > 0: -1 below a tie 100a/b,
\* 1 above a tie, 0 when it rounds as the exact value does
DoubleSide(a, b) ==
    LET g == GCD(Abs(a), b)
        n == Abs(a) \div g
        dd == b \div g
    IN  IF a = 0 \/ dd \notin {40, 200} THEN 0
        ELSE IF a > 0 THEN TieSide(n, dd)
        ELSE 0 - TieSide(n, dd)

\* Math.floor: the mutant of MathRoundPct that truncates instead of rounding
MathFloorPct(a, b) ==
    IF b = 0 THEN NaN ELSE (100 * a) \div b

\* Math.round((a / b) * 100) for integers a and b
MathRoundPct(a, b) ==
    IF b = 0
    THEN (IF a = 0 THEN NaN ELSE IF a > 0 THEN Infinity ELSE 0 - Infinity)
    ELSE LET x == IF b < 0 THEN 0 - a ELSE a
             y == Abs(b)
             halfUp == (200 * x + y) \div (2 * y)
         IN  IF DoubleSide(x, y) = -1 THEN halfUp - 1 ELSE halfUp

(***************************************************************************)
(* How a call completes: it returns a value, or throws (an async function  *)
(* rejects), which the caller propagates unless it catches.                *)
(***************************************************************************)
Return(v) == [threw |-> FALSE, value |-> v]

Thrown(what) == [threw |-> TRUE, cause |-> what]

(***************************************************************************)
(* getCpuUsage, index.ts:50-92.                                            *)
(***************************************************************************)
Total(t) == t.user + t.nice + t.sys + t.idle + t.irq

\* a write that replaces only the first three counters of an existing
\* entry: a mutant of WriteCache
WriteCacheTorn(cache, i, times) ==
    IF i <= Len(cache)
    THEN [cache EXCEPT ![i] = [@ EXCEPT !.user = times.user,
                                        !.nice = times.nice,
                                        !.sys = times.sys]]
    ELSE Append(cache, times)

\* prevCpuTimes[index] = {...cpu.times}: an assignment past the end extends
\* the array (indexes are visited in order, so it stays dense)
WriteCache(cache, i, times) ==
    IF i <= Len(cache) THEN [cache EXCEPT ![i] = times] ELSE Append(cache, times)

\* index.ts:74 with idle 0: the mutant of DegenerateUsage
DegenerateUsageBusy(index) ==
    [core |-> index, usage |-> 0, user |-> 0, system |-> 0, idle |-> 0]

\* index.ts:74
DegenerateUsage(index) ==
    [core |-> index, usage |-> 0, user |-> 0, system |-> 0, idle |-> 100]

\* index.ts:58-75 with the user share taken from the counter itself instead
\* of its difference: a mutant of DeltaUsage
DeltaUsageRawUser(index, times, prev) ==
    LET totalDiff == Total(times) - Total(prev)
        idleDiff == times.idle - prev.idle
        sysDiff == times.sys - prev.sys
    IN  IF totalDiff > 0
        THEN [core |-> index,
              usage |-> MathRoundPct(totalDiff - idleDiff, totalDiff),
              user |-> MathRoundPct(times.user, totalDiff),
              system |-> MathRoundPct(sysDiff, totalDiff),
              idle |-> MathRoundPct(idleDiff, totalDiff)]
        ELSE DegenerateUsage(index)

\* index.ts:58-75, the branch taken when prevCpuTimes[index] exists
DeltaUsage(index, times, prev) ==
    LET total == Total(times)
        prevTotal == Total(prev)
        totalDiff == total - prevTotal
        idleDiff == times.idle - prev.idle
        userDiff == times.user - prev.user
        sysDiff == times.sys - prev.sys
    IN  IF totalDiff > 0
        THEN [core |-> index,
              usage |-> MathRoundPct(totalDiff - idleDiff, totalDiff),
              user |-> MathRoundPct(userDiff, totalDiff),
              system |-> MathRoundPct(sysDiff, totalDiff),
              idle |-> MathRoundPct(idleDiff, totalDiff)]
        ELSE DegenerateUsage(index)

\* index.ts:76-86, the first run for this index
FirstRunUsage(index, times) ==
    LET total == Total(times)
    IN  [core |-> index,
         usage |-> MathRoundPct(total - times.idle, total),
         user |-> MathRoundPct(times.user, total),
         system |-> MathRoundPct(times.sys, total),
         idle |-> MathRoundPct(times.idle, total)]

\* index.ts:54-89 putting each sample in front of the earlier ones
\* (unshift for push): a mutant of ForEachCpu
RECURSIVE ForEachCpuUnshift(_, _, _, _)
ForEachCpuUnshift(i, cpuInfo, cache, usage) ==
    IF i > Len(cpuInfo)
    THEN [usage |-> usage, cache |-> cache]
    ELSE LET one == IF i <= Len(cache)
                    THEN DeltaUsage(i - 1, cpuInfo[i], cache[i])
                    ELSE FirstRunUsage(i - 1, cpuInfo[i])
         IN  ForEachCpuUnshift(i + 1, cpuInfo,
                               WriteCache(cache, i, cpuInfo[i]),
                               <<one>> \o usage)

\* index.ts:54-89 taking the delta branch only when the total has advanced
\* (if (prev && total > prevTotal)), the first-run estimate otherwise: a
\* mutant of ForEachCpu
RECURSIVE ForEachCpuBootstrapOnStall(_, _, _, _)
ForEachCpuBootstrapOnStall(i, cpuInfo, cache, usage) ==
    IF i > Len(cpuInfo)
    THEN [usage |-> usage, cache |-> cache]
    ELSE LET one == IF i <= Len(cache) /\ Total(cpuInfo[i]) > Total(cache[i])
                    THEN DeltaUsage(i - 1, cpuInfo[i], cache[i])
                    ELSE FirstRunUsage(i - 1, cpuInfo[i])
         IN  ForEachCpuBootstrapOnStall(i + 1, cpuInfo,
                                        WriteCache(cache, i, cpuInfo[i]),
                                        Append(usage, one))

\* cpuInfo.forEach, index.ts:54-89, from position i on (sequences are
\* 1-based: position i is the code's index i - 1)
RECURSIVE ForEachCpu(_, _, _, _)
ForEachCpu(i, cpuInfo, cache, usage) ==
    IF i > Len(cpuInfo)
    THEN [usage |-> usage, cache |-> cache]
    ELSE LET one == IF i <= Len(cache)
                    THEN DeltaUsage(i - 1, cpuInfo[i], cache[i])
                    ELSE FirstRunUsage(i - 1, cpuInfo[i])
         IN  ForEachCpu(i + 1, cpuInfo, WriteCache(cache, i, cpuInfo[i]),
                        Append(usage, one))

\* getCpuUsage() replacing the whole cache by the readings of this call
\* (prevCpuTimes = cpuInfo.map(c => c.times)): a mutant of getCpuUsage
getCpuUsageReplacing(cache, cpuInfo) ==
    [usage |-> ForEachCpu(1, cpuInfo, cache, <<>>).usage, cache |-> cpuInfo]

\* getCpuUsage(): its return value and the cache it leaves, for the cache it
\* finds and what cpus() returns
getCpuUsage(cache, cpuInfo) == ForEachCpu(1, cpuInfo, cache, <<>>)

(***************************************************************************)
(* Readings cpus() can return.                                             *)
(***************************************************************************)
CpuTimes ==
    [user : 0..MaxTick, nice : 0..MaxAux, sys : 0..MaxTick,
     idle : 0..MaxTick, irq : 0..MaxAux]

Reading(u, n, s, i, q) ==
    [user |-> u, nice |-> n, sys |-> s, idle |-> i, irq |-> q]

\* two consecutive readings of a long-running host, and a third one 40
\* ticks later of which 23 were user time
HostReadings ==
    { Reading(100, 0, 50, 850, 0), Reading(120, 0, 60, 900, 0),
      Reading(143, 0, 60, 917, 0) }

WideReadings == CpuTimes \cup HostReadings

(***************************************************************************)
(* getMemoryInfo, index.ts:146-229.                                        *)
(*                                                                         *)
(* The result of execAsync is [ok |-> FALSE] when the promise rejects      *)
(* (command missing, non-zero exit, I/O error) and [ok |-> TRUE, stdout]   *)
(* otherwise.  The stdout of vm_stat is modelled by what the parser reads  *)
(* from it: for the header and for each of the four page classes, <<>>     *)
(* when no line matches and <<n>> when the matching line carries the       *)
(* number n.  The stdout of cat /proc/meminfo is modelled by its first     *)
(* MemAvailable line, <<>> or <<kB>>.                                      *)
(***************************************************************************)
DefaultPageSize == 16384
KB == 1024

\* line.match(/(\d+)/)?.[1] || "0", and the initial value 0 of the variable
\* when no line of the class exists
ParsedOr(m, default) == IF m = <<>> THEN default ELSE m[1]

\* index.ts:183-188 with percent taken from the free share: a mutant of
\* VmStatInfo
VmStatInfoFreeShare(totalMemory, stdout) ==
    LET pageSize == ParsedOr(stdout.header, DefaultPageSize)
        availableMemory ==
            (ParsedOr(stdout.free, 0) + ParsedOr(stdout.inactive, 0)
             + ParsedOr(stdout.purgeable, 0) + ParsedOr(stdout.speculative, 0))
            * pageSize
        usedMemory == totalMemory - availableMemory
    IN  [total |-> totalMemory, free |-> availableMemory, used |-> usedMemory,
         percent |-> MathRoundPct(availableMemory, totalMemory)]

\* index.ts:155-188, the darwin strategy once vm_stat has answered
VmStatInfo(totalMemory, stdout) ==
    LET pageSize == ParsedOr(stdout.header, DefaultPageSize)
        freePages == ParsedOr(stdout.free, 0)
        inactivePages == ParsedOr(stdout.inactive, 0)
        purgeablePages == ParsedOr(stdout.purgeable, 0)
        speculativePages == ParsedOr(stdout.speculative, 0)
        availableMemory ==
            (freePages + inactivePages + purgeablePages + speculativePages)
            * pageSize
        usedMemory == totalMemory - availableMemory
    IN  [total |-> totalMemory, free |-> availableMemory, used |-> usedMemory,
         percent |-> MathRoundPct(usedMemory, totalMemory)]

\* index.ts:198-204
MemAvailableBytes(stdout) == ParsedOr(stdout.memAvailable, 0) * KB

\* index.ts:207-213 reporting free in kB: a mutant of MemAvailableInfo
MemAvailableInfoKb(totalMemory, memAvailable) ==
    LET usedMemory == totalMemory - memAvailable
    IN  [total |-> totalMemory, free |-> memAvailable \div KB,
         used |-> usedMemory,
         percent |-> MathRoundPct(usedMemory, totalMemory)]

\* index.ts:207-213, the linux strategy when memAvailable > 0
MemAvailableInfo(totalMemory, memAvailable) ==
    LET usedMemory == totalMemory - memAvailable
    IN  [total |-> totalMemory, free |-> memAvailable, used |-> usedMemory,
         percent |-> MathRoundPct(usedMemory, totalMemory)]

\* index.ts:221-228
FallbackInfo(totalMemory, freeMemory) ==
    LET usedMemory == totalMemory - freeMemory
    IN  [total |-> totalMemory, free |-> freeMemory, used |-> usedMemory,
         percent |-> MathRoundPct(usedMemory, totalMemory)]

\* index.ts:146-229 without the try/catch around the query: a mutant of
\* getMemoryInfo
getMemoryInfoUncaught(os, totalMemory, exec, freeMemory) ==
    IF os \in {"darwin", "linux"} /\ ~exec.ok
    THEN Thrown("memory")
    ELSE IF os = "darwin"
    THEN Return(VmStatInfo(totalMemory, exec.stdout))
    ELSE IF os = "linux" /\ MemAvailableBytes(exec.stdout) > 0
    THEN Return(MemAvailableInfo(totalMemory, MemAvailableBytes(exec.stdout)))
    ELSE Return(FallbackInfo(totalMemory, freeMemory))

\* getMemoryInfo(): how the call completes for the platform, totalmem(),
\* the outcome of the external query and freemem()
getMemoryInfo(os, totalMemory, exec, freeMemory) ==
    IF os = "darwin" /\ exec.ok
    THEN Return(VmStatInfo(totalMemory, exec.stdout))
    ELSE IF os = "linux" /\ exec.ok /\ MemAvailableBytes(exec.stdout) > 0
    THEN Return(MemAvailableInfo(totalMemory, MemAvailableBytes(exec.stdout)))
    ELSE Return(FallbackInfo(totalMemory, freeMemory))

(***************************************************************************)
(* What the host can answer.                                               *)
(***************************************************************************)
Platforms == {"darwin", "linux", "win32"}

TotalMems == {DefaultPageSize * k : k \in 1..MaxMemPages}

FreeMems(totalMemory) ==
    {DefaultPageSize * k : k \in 0..(totalMemory \div DefaultPageSize)}

Matched(S) == {<<>>} \cup {<<n>> : n \in S}

VmStatOutputs ==
    [header : Matched({4096, DefaultPageSize}),
     free : Matched(0..MaxPages), inactive : Matched(0..MaxPages),
     purgeable : Matched(0..MaxPages), speculative : Matched(0..MaxPages)]

MemInfoOutputs == [memAvailable : Matched({16 * k : k \in 0..MaxMemPages})]

ExecFailed == [ok |-> FALSE]

\* what the external memory query of a platform can come back with; the
\* other platforms run no query
MemExecResults(os) ==
    IF os = "darwin"
    THEN {ExecFailed} \cup {[ok |-> TRUE, stdout |-> o] : o \in VmStatOutputs}
    ELSE IF os = "linux"
    THEN {ExecFailed} \cup {[ok |-> TRUE, stdout |-> o] : o \in MemInfoOutputs}
    ELSE {[ok |-> TRUE, stdout |-> "none"]}

NoCall == [st |-> "none"]

\* a component of the browser that no page has rendered
NotRendered == [st |-> "none"]

(***************************************************************************)
(* getProcesses, index.ts:94-136.  A line of the ps output is modelled by  *)
(* the number of its whitespace-separated tokens and the pid it carries;   *)
(* stdout.trim().split("\n") always has a first line.  The command ends in *)
(* "| head -50", so what execAsync resolves with is the first 50 lines of  *)
(* what ps prints.                                                         *)
(***************************************************************************)
MinTokens == 11
HeadLimit == 50

\* the command without "| head -50": a mutant of HeadOutput
HeadOutputAll(lines) == lines

\* index.ts:100 and 103, "| head -50"
HeadOutput(lines) ==
    SubSeq(lines, 1, IF Len(lines) < HeadLimit THEN Len(lines) ELSE HeadLimit)

\* index.ts:113, lines[i].trim().split(/\s+/).length: a line without any
\* token splits into one empty string
PartsLength(line) == IF line.tokens = 0 THEN 1 ELSE line.tokens

\* index.ts:115-127
ProcessOf(line) == [pid |-> line.pid]

\* index.ts:112-129 keeping only the lines with more than 11 parts: a
\* mutant of ParseLines
RECURSIVE ParseLinesStrict(_, _, _)
ParseLinesStrict(i, lines, processes) ==
    IF i > Len(lines)
    THEN processes
    ELSE ParseLinesStrict(i + 1, lines,
                          IF PartsLength(lines[i]) > MinTokens
                          THEN Append(processes, ProcessOf(lines[i]))
                          ELSE processes)

\* index.ts:112-129, the loop from position i on (position 1 is the header)
RECURSIVE ParseLines(_, _, _)
ParseLines(i, lines, processes) ==
    IF i > Len(lines)
    THEN processes
    ELSE ParseLines(i + 1, lines,
                    IF PartsLength(lines[i]) >= MinTokens
                    THEN Append(processes, ProcessOf(lines[i]))
                    ELSE processes)

\* index.ts:106-135 without the catch: a mutant of getProcesses
getProcessesUncaught(exec) ==
    IF exec.ok THEN Return(ParseLines(2, exec.stdout, <<>>)) ELSE Thrown("ps")

\* getProcesses(): how the call completes for the outcome of the ps command
getProcesses(exec) ==
    IF exec.ok THEN Return(ParseLines(2, exec.stdout, <<>>)) ELSE Return(<<>>)

(***************************************************************************)
(* getSystemMetrics, index.ts:231-253, and the /api/metrics route of       *)
(* fetch, index.ts:271-279.                                                *)
(***************************************************************************)
PollIds == 1..MaxPolls

Idle == [pc |-> "idle"]

NoResponse == [status |-> 0]

\* the handler's promise rejected: the server answers 500, without a body
Rejected(what) == [status |-> 500, cause |-> what]

\* index.ts:236-252 evaluating cpuUsage before the host facts: a mutant of
\* BuildMetrics
BuildMetricsCpuFirst(cache, cpuCount, memInfo, processes, factsOk, cpus) ==
    IF ~cpus.ok
    THEN [threw |-> TRUE, cause |-> "cpus", cache |-> cache]
    ELSE LET r == getCpuUsage(cache, cpus.cpuInfo)
         IN  IF ~factsOk
             THEN [threw |-> TRUE, cause |-> "hostFacts", cache |-> r.cache]
             ELSE [threw |-> FALSE, cache |-> r.cache,
                   value |-> [cpuCount |-> cpuCount, cpuUsage |-> r.usage,
                              totalMem |-> memInfo.total,
                              freeMem |-> memInfo.free,
                              usedMem |-> memInfo.used,
                              memPercent |-> memInfo.percent,
                              processes |-> processes,
                              processCount |-> Len(processes)]]

\* index.ts:236-252 with processCount counting the header line too: a
\* mutant of BuildMetrics
BuildMetricsCountingHeader(cache, cpuCount, memInfo, processes, factsOk, cpus) ==
    IF ~factsOk
    THEN [threw |-> TRUE, cause |-> "hostFacts", cache |-> cache]
    ELSE IF ~cpus.ok
    THEN [threw |-> TRUE, cause |-> "cpus", cache |-> cache]
    ELSE LET r == getCpuUsage(cache, cpus.cpuInfo)
         IN  [threw |-> FALSE, cache |-> r.cache,
              value |-> [cpuCount |-> cpuCount, cpuUsage |-> r.usage,
                         totalMem |-> memInfo.total,
                         freeMem |-> memInfo.free,
                         usedMem |-> memInfo.used,
                         memPercent |-> memInfo.percent,
                         processes |-> processes,
                         processCount |-> Len(processes) + 1]]

\* index.ts:236-252, the object literal, its properties evaluated in order:
\* the host facts (hostname() ... loadavg()) come before getCpuUsage(), whose
\* cpus() comes before the first cache access; what follows cannot throw
BuildMetrics(cache, cpuCount, memInfo, processes, factsOk, cpus) ==
    IF ~factsOk
    THEN [threw |-> TRUE, cause |-> "hostFacts", cache |-> cache]
    ELSE IF ~cpus.ok
    THEN [threw |-> TRUE, cause |-> "cpus", cache |-> cache]
    ELSE LET r == getCpuUsage(cache, cpus.cpuInfo)
         IN  [threw |-> FALSE, cache |-> r.cache,
              value |-> [cpuCount |-> cpuCount, cpuUsage |-> r.usage,
                         totalMem |-> memInfo.total,
                         freeMem |-> memInfo.free,
                         usedMem |-> memInfo.used,
                         memPercent |-> memInfo.percent,
                         processes |-> processes,
                         processCount |-> Len(processes)]]

(***************************************************************************)
(* What the host answers to the server's polls.                            *)
(***************************************************************************)
\* cpus() of a host whose second core comes and goes: one core at either
\* reading, or two cores
ServerCpuInfos ==
    {<<Reading(100, 0, 50, 850, 0)>>, <<Reading(120, 0, 60, 900, 0)>>,
     <<Reading(120, 0, 60, 900, 0), Reading(100, 0, 50, 850, 0)>>}

CpusResults ==
    {[ok |-> FALSE]} \cup {[ok |-> TRUE, cpuInfo |-> c] : c \in ServerCpuInfos}

ServerTotalMem == 4 * DefaultPageSize

ServerFreeMem == DefaultPageSize

ServerMemExecResults(os) ==
    IF os = "darwin"
    THEN {ExecFailed,
          [ok |-> TRUE,
           stdout |-> [header |-> <<4096>>, free |-> <<1>>,
                       inactive |-> <<2>>, purgeable |-> <<0>>,
                       speculative |-> <<1>>]]}
    ELSE {ExecFailed, [ok |-> TRUE, stdout |-> [memAvailable |-> <<32>>]]}

PsHeader == [tokens |-> 11, pid |-> 0]

PsExecResults ==
    {ExecFailed,
     [ok |-> TRUE,
      stdout |-> <<PsHeader, [tokens |-> 12, pid |-> 7],
                   [tokens |-> 4, pid |-> 8], [tokens |-> 11, pid |-> 9]>>]}

(***************************************************************************)
(* The server.                                                             *)
(***************************************************************************)
Init ==
    /\ prevCpuTimes = <<>>
    /\ host \in [platform : Platforms, totalmem : {ServerTotalMem}]
    /\ polls = [p \in PollIds |-> Idle]
    /\ client = NotRendered
    /\ table = NotRendered
    /\ graph = NotRendered
    /\ lastResponse = NoResponse
    /\ cpuCall = NoCall
    /\ memCall = NoCall
    /\ psCall = NoCall
    /\ snapCall = NoCall

\* the poll has its memory figures and starts getProcesses, index.ts:234,
\* which runs up to its await of the ps command; a throw of getMemoryInfo
\* rejects the handler
AfterMemory(p, cpuCount, mem, memOk) ==
    IF mem.threw
    THEN /\ polls' = [polls EXCEPT ![p] = Idle]
         /\ lastResponse' = Rejected(mem.cause)
    ELSE /\ polls' = [polls EXCEPT ![p] =
                        [pc |-> "ps", cpuCount |-> cpuCount,
                         memInfo |-> mem.value, memOk |-> memOk]]
         /\ UNCHANGED lastResponse

\* fetch for GET /api/metrics up to the first await on an external command:
\* cpus() of index.ts:232, then getMemoryInfo up to its execAsync, or, on a
\* platform without a query, through its fallback and on to getProcesses
StartPoll(p) ==
    /\ polls[p].pc = "idle"
    /\ \E cpus \in CpusResults :
          IF ~cpus.ok
          THEN /\ lastResponse' = Rejected("cpus")
               /\ UNCHANGED polls
          ELSE IF host.platform \in {"darwin", "linux"}
          THEN /\ polls' = [polls EXCEPT ![p] =
                              [pc |-> "mem", cpuCount |-> Len(cpus.cpuInfo)]]
               /\ UNCHANGED lastResponse
          ELSE AfterMemory(p, Len(cpus.cpuInfo),
                           getMemoryInfo(host.platform, host.totalmem,
                                         [ok |-> TRUE, stdout |-> "none"],
                                         ServerFreeMem),
                           TRUE)
    /\ UNCHANGED <<prevCpuTimes, host, cpuCall, memCall, psCall, snapCall,
                   clientVars>>

\* the memory query of poll p settles: the rest of getMemoryInfo
MemoryQueryDone(p) ==
    /\ polls[p].pc = "mem"
    /\ \E exec \in ServerMemExecResults(host.platform) :
          AfterMemory(p, polls[p].cpuCount,
                      getMemoryInfo(host.platform, host.totalmem, exec,
                                    ServerFreeMem),
                      exec.ok)
    /\ UNCHANGED <<prevCpuTimes, host, cpuCall, memCall, psCall, snapCall,
                   clientVars>>

\* the tail of the poll answering with the payload of the last snapshot
\* when there is one, collecting nothing (a response cache): a mutant of
\* ProcessListDone
ProcessListDoneCached(p) ==
    /\ polls[p].pc = "ps"
    /\ \E exec \in PsExecResults, factsOk \in BOOLEAN, cpus \in CpusResults :
          IF lastResponse.status = 200
          THEN UNCHANGED <<prevCpuTimes, lastResponse>>
          ELSE LET m == BuildMetrics(prevCpuTimes, polls[p].cpuCount,
                                     polls[p].memInfo,
                                     getProcesses(exec).value, factsOk, cpus)
               IN  /\ prevCpuTimes' = m.cache
                   /\ lastResponse' =
                          IF m.threw
                          THEN Rejected(m.cause)
                          ELSE [status |-> 200, metrics |-> m.value,
                                memOk |-> polls[p].memOk, psOk |-> exec.ok,
                                afterRejection |-> lastResponse.status = 500]
    /\ polls' = [polls EXCEPT ![p] = Idle]
    /\ UNCHANGED <<host, cpuCall, memCall, psCall, snapCall, clientVars>>

\* the ps command of poll p settles: the rest of getProcesses, then
\* index.ts:236-252 and the Response of index.ts:273, all synchronous
ProcessListDone(p) ==
    /\ polls[p].pc = "ps"
    /\ \E exec \in PsExecResults, factsOk \in BOOLEAN, cpus \in CpusResults :
          LET ps == getProcesses(exec)
          IN  IF ps.threw
              THEN /\ lastResponse' = Rejected(ps.cause)
                   /\ UNCHANGED prevCpuTimes
              ELSE LET m == BuildMetrics(prevCpuTimes, polls[p].cpuCount,
                                         polls[p].memInfo, ps.value,
                                         factsOk, cpus)
                   IN  /\ prevCpuTimes' = m.cache
                       /\ lastResponse' =
                              IF m.threw
                              THEN Rejected(m.cause)
                              ELSE [status |-> 200, metrics |-> m.value,
                                    memOk |-> polls[p].memOk,
                                    psOk |-> exec.ok,
                                    afterRejection |->
                                        lastResponse.status = 500]
    /\ polls' = [polls EXCEPT ![p] = Idle]
    /\ UNCHANGED <<host, cpuCall, memCall, psCall, snapCall, clientVars>>

Next ==
    \E p \in PollIds :
        \/ StartPoll(p)
        \/ MemoryQueryDone(p)
        \/ ProcessListDone(p)

Spec == Init /\ [][Next]_vars

(***************************************************************************)
(* fetch, index.ts:257-291, with all its routes.  A request is its method  *)
(* and the pathname of its URL; a response that is not a snapshot is kept  *)
(* with the request it answers.                                            *)
(***************************************************************************)
Methods == {"GET", "OPTIONS"}

Pathnames == {"/api/metrics", "/api/health", "/api/environment", "/"}

Requests == [method : Methods, pathname : Pathnames]

\* index.ts:267-290, the order of the tests
Route(req) ==
    IF req.method = "OPTIONS" THEN "options"
    ELSE IF req.pathname = "/api/metrics" THEN "metrics"
    ELSE IF req.pathname = "/api/health" THEN "health"
    ELSE "notFound"

\* index.ts:268, 282 and 290; the body is the text sent, none for OPTIONS
Answer(req) ==
    IF Route(req) = "options"
    THEN [status |-> 200, body |-> "", request |-> req]
    ELSE IF Route(req) = "health"
    THEN [status |-> 200, body |-> "{\"status\":\"ok\"}", request |-> req]
    ELSE [status |-> 404, body |-> "Not Found", request |-> req]

\* a route that also takes a CPU sample before it answers: a mutant of
\* Respond
RespondSampling(req) ==
    /\ Route(req) # "metrics"
    /\ lastResponse' = Answer(req)
    /\ \E c \in ServerCpuInfos : prevCpuTimes' = getCpuUsage(prevCpuTimes, c).cache
    /\ UNCHANGED <<host, polls, cpuCall, memCall, psCall, snapCall, clientVars>>

\* fetch for a request of any route but /api/metrics: synchronous, no
\* collector called
Respond(req) ==
    /\ Route(req) # "metrics"
    /\ lastResponse' = Answer(req)
    /\ UNCHANGED <<prevCpuTimes, host, polls, cpuCall, memCall, psCall,
                   snapCall, clientVars>>

\* fetch up to its first await
Fetch(p, req) ==
    IF Route(req) = "metrics" THEN StartPoll(p) ELSE Respond(req)

NextFetch ==
    \/ \E p \in PollIds, req \in Requests : Fetch(p, req)
    \/ \E p \in PollIds : MemoryQueryDone(p)
    \/ \E p \in PollIds : ProcessListDone(p)

SpecFetch == Init /\ [][NextFetch]_vars

(***************************************************************************)
(* The sampler over the lifetime of the server: the getCpuUsage calls one  *)
(* after another (each is one synchronous step of some poll), from the     *)
(* empty cache, for any cpus() result of up to MaxCores cores.  Each call  *)
(* is kept with the cache it found and with the number of indexes earlier  *)
(* calls had reported.                                                     *)
(***************************************************************************)
RECURSIVE SamplerListsOfLength(_)
SamplerListsOfLength(n) ==
    IF n = 0
    THEN {<<>>}
    ELSE {Append(c, r) : c \in SamplerListsOfLength(n - 1), r \in HostReadings}

SamplerCpuInfos == UNION {SamplerListsOfLength(n) : n \in 0..MaxCores}

\* the number of core indexes the calls so far have reported
ReportedSoFar ==
    IF cpuCall.st = "none"
    THEN 0
    ELSE IF Len(cpuCall.cpuInfo) > cpuCall.reported
    THEN Len(cpuCall.cpuInfo)
    ELSE cpuCall.reported

InitSampler ==
    /\ prevCpuTimes = <<>>
    /\ host = [platform |-> "linux", totalmem |-> DefaultPageSize]
    /\ polls = [p \in PollIds |-> Idle]
    /\ client = NotRendered
    /\ table = NotRendered
    /\ graph = NotRendered
    /\ lastResponse = NoResponse
    /\ cpuCall = NoCall
    /\ memCall = NoCall
    /\ psCall = NoCall
    /\ snapCall = NoCall

SampleCall ==
    /\ \E c \in SamplerCpuInfos :
          LET r == getCpuUsage(prevCpuTimes, c)
          IN  /\ prevCpuTimes' = r.cache
              /\ cpuCall' = [st |-> "out", cpuInfo |-> c,
                             baseline |-> prevCpuTimes, usage |-> r.usage,
                             reported |-> ReportedSoFar]
    /\ UNCHANGED <<host, polls, lastResponse, memCall, psCall, snapCall,
                   clientVars>>

NextSampler == SampleCall

SpecSampler == InitSampler /\ [][NextSampler]_vars

(***************************************************************************)
(* Overlapping polls on a host whose counters only grow.  The host has one *)
(* core; host.cpus is what cpus() returns now.  Only what reaches the      *)
(* cache is followed: the memory and process figures of a poll do not, and *)
(* their commands are the two awaits of the poll.                          *)
(***************************************************************************)
OsStart == <<Reading(1, 0, 0, 1, 0)>>

OsTicks == Total(host.cpus[1]) - Total(OsStart[1])

InitOs ==
    /\ prevCpuTimes = <<>>
    /\ host = [platform |-> "linux", totalmem |-> ServerTotalMem,
               cpus |-> OsStart]
    /\ polls = [p \in PollIds |-> Idle]
    /\ client = NotRendered
    /\ table = NotRendered
    /\ graph = NotRendered
    /\ lastResponse = NoResponse
    /\ cpuCall = NoCall
    /\ memCall = NoCall
    /\ psCall = NoCall
    /\ snapCall = NoCall

\* a tick of the OS goes to the user or to the idle counter of the core
OsTick ==
    /\ OsTicks < MaxClock
    /\ \/ host' = [host EXCEPT !.cpus =
                       <<[host.cpus[1] EXCEPT !.user = @ + 1]>>]
       \/ host' = [host EXCEPT !.cpus =
                       <<[host.cpus[1] EXCEPT !.idle = @ + 1]>>]
    /\ UNCHANGED <<prevCpuTimes, polls, lastResponse, cpuCall, memCall,
                   psCall, snapCall, clientVars>>

\* index.ts:232-233: cpus() for cpuCount and cpuModel, then the await of
\* the memory query
OsStartPoll(p) ==
    /\ polls[p].pc = "idle"
    /\ polls' = [polls EXCEPT ![p] = [pc |-> "mem", cpuInfo |-> host.cpus]]
    /\ UNCHANGED <<prevCpuTimes, host, lastResponse, cpuCall, memCall,
                   psCall, snapCall, clientVars>>

\* index.ts:234: the memory query has settled, the await of the ps command
OsMemoryQueryDone(p) ==
    /\ polls[p].pc = "mem"
    /\ polls' = [polls EXCEPT ![p] = [pc |-> "ps", cpuInfo |-> polls[p].cpuInfo]]
    /\ UNCHANGED <<prevCpuTimes, host, lastResponse, cpuCall, memCall,
                   psCall, snapCall, clientVars>>

\* the reading the poll fetched when it arrived, index.ts:232, handed to
\* the sampler: a mutant of SampledCpus
SampledAtArrival(p) == polls[p].cpuInfo

\* index.ts:51: getCpuUsage calls cpus() itself, when it runs
SampledCpus(p) == host.cpus

\* index.ts:236-252 and 273: the ps command has settled; the sample and the
\* answer, which is kept with the reading sampled and the reading the poll
\* had fetched on arrival
OsProcessListDone(p) ==
    /\ polls[p].pc = "ps"
    /\ LET r == getCpuUsage(prevCpuTimes, SampledCpus(p))
       IN  /\ prevCpuTimes' = r.cache
           /\ lastResponse' = [status |-> 200, cpuUsage |-> r.usage,
                               sampled |-> SampledCpus(p),
                               arrived |-> polls[p].cpuInfo]
    /\ polls' = [polls EXCEPT ![p] = Idle]
    /\ UNCHANGED <<host, cpuCall, memCall, psCall, snapCall, clientVars>>

NextOs ==
    \/ OsTick
    \/ \E p \in PollIds : OsStartPoll(p)
    \/ \E p \in PollIds : OsMemoryQueryDone(p)
    \/ \E p \in PollIds : OsProcessListDone(p)

SpecOs == InitOs /\ [][NextOs]_vars

(***************************************************************************)
(* One call of getCpuUsage on a single core, for every cache it can find   *)
(* and every reading.                                                      *)
(***************************************************************************)
InitCpu ==
    /\ prevCpuTimes \in {<<>>} \cup {<<r>> : r \in WideReadings}
    /\ cpuCall \in {[st |-> "in", cpuInfo |-> <<r>>] : r \in WideReadings}
    /\ host = [platform |-> "linux", totalmem |-> DefaultPageSize]
    /\ polls = [p \in PollIds |-> Idle]
    /\ client = NotRendered
    /\ table = NotRendered
    /\ graph = NotRendered
    /\ lastResponse = NoResponse
    /\ memCall = NoCall
    /\ psCall = NoCall
    /\ snapCall = NoCall

CallGetCpuUsage ==
    /\ cpuCall.st = "in"
    /\ LET r == getCpuUsage(prevCpuTimes, cpuCall.cpuInfo)
       IN  /\ prevCpuTimes' = r.cache
           /\ cpuCall' = [st |-> "out", cpuInfo |-> cpuCall.cpuInfo,
                          baseline |-> prevCpuTimes, usage |-> r.usage]
    /\ UNCHANGED <<host, polls, lastResponse, memCall, psCall, snapCall,
                   clientVars>>

NextCpu == CallGetCpuUsage

SpecCpu == InitCpu /\ [][NextCpu]_vars

(***************************************************************************)
(* One call of getMemoryInfo, for every platform, every total, every       *)
(* outcome of the query and every freemem().  On darwin and linux the call *)
(* waits for its command (index.ts:154, 195), and other callbacks run      *)
(* while it does: freemem(), read only after the wait (index.ts:221), is   *)
(* the one of that moment.  memCall.freemem is what freemem() answers now. *)
(***************************************************************************)
InitMem ==
    /\ prevCpuTimes = <<>>
    /\ host \in [platform : Platforms, totalmem : TotalMems]
    /\ polls = [p \in PollIds |-> Idle]
    /\ client = NotRendered
    /\ table = NotRendered
    /\ graph = NotRendered
    /\ lastResponse = NoResponse
    /\ cpuCall = NoCall
    /\ psCall = NoCall
    /\ snapCall = NoCall
    /\ memCall \in {[st |-> "in", exec |-> e, freemem |-> f] :
                      e \in MemExecResults(host.platform),
                      f \in FreeMems(host.totalmem)}

\* getMemoryInfo up to its await, index.ts:146-154 and 195: totalmem(),
\* platform() and the start of the command; on another platform there is no
\* command and the call runs through its fallback, index.ts:221-228
StartGetMemoryInfo ==
    /\ memCall.st = "in"
    /\ memCall' =
           IF host.platform \in {"darwin", "linux"}
           THEN [memCall EXCEPT !.st = "waiting"]
           ELSE [st |-> "out", exec |-> memCall.exec,
                 freemem |-> memCall.freemem,
                 info |-> getMemoryInfo(host.platform, host.totalmem,
                                        memCall.exec, memCall.freemem).value]
    /\ UNCHANGED <<prevCpuTimes, host, polls, lastResponse, cpuCall, psCall,
                   snapCall, clientVars>>

\* another callback runs while the call waits for its command, and the free
\* memory of the host is another
FreeMemChanges(f) ==
    /\ memCall.st = "waiting"
    /\ f # memCall.freemem
    /\ memCall' = [memCall EXCEPT !.freemem = f]
    /\ UNCHANGED <<prevCpuTimes, host, polls, lastResponse, cpuCall, psCall,
                   snapCall, clientVars>>

\* the command settles: the rest of getMemoryInfo, index.ts:155-191 or
\* 196-217, and the fallback of index.ts:221-228 with the freemem() of now
MemCommandSettles ==
    /\ memCall.st = "waiting"
    /\ memCall' = [st |-> "out", exec |-> memCall.exec,
                   freemem |-> memCall.freemem,
                   info |-> getMemoryInfo(host.platform, host.totalmem,
                                          memCall.exec, memCall.freemem).value]
    /\ UNCHANGED <<prevCpuTimes, host, polls, lastResponse, cpuCall, psCall,
                   snapCall, clientVars>>

NextMem ==
    \/ StartGetMemoryInfo
    \/ \E f \in FreeMems(host.totalmem) : FreeMemChanges(f)
    \/ MemCommandSettles

SpecMem == InitMem /\ [][NextMem]_vars

(***************************************************************************)
(* One call of getProcesses, for every short output of ps, some long ones  *)
(* and the failure of the command.  The call waits for the command         *)
(* (index.ts:107); psCall.run is what the command is going to do.          *)
(***************************************************************************)
\* the lines ps can print after its header: blank, one token short, exactly
\* 11 tokens, a command with a space in it
PsRows == [tokens : {0, 10, MinTokens, 12}, pid : 1..2]

RECURSIVE RowsOfLength(_)
RowsOfLength(n) ==
    IF n = 0
    THEN {<<>>}
    ELSE {Append(rows, r) : rows \in RowsOfLength(n - 1), r \in PsRows}

\* a process table of n well-formed rows, pids 1..n
LongTable(n) == [i \in 1..n |-> [tokens |-> MinTokens, pid |-> i]]

\* stdout.trim().split("\n") of what ps prints before head cuts it: the one
\* empty line of an empty output, or the header and the rows
PsTables ==
    {<<[tokens |-> 0, pid |-> 0]>>}
    \cup {<<PsHeader>> \o rows :
             rows \in UNION {RowsOfLength(n) : n \in 0..MaxLines}}
    \cup {<<PsHeader>> \o LongTable(n) : n \in {48, 49, 50, 60}}

\* execAsync(command), index.ts:107: the command fails, or resolves with
\* the head of the table
PsCommand(run) ==
    IF run.ok THEN [ok |-> TRUE, stdout |-> HeadOutput(run.table)] ELSE ExecFailed

InitPs ==
    /\ prevCpuTimes = <<>>
    /\ host = [platform |-> "linux", totalmem |-> DefaultPageSize]
    /\ polls = [p \in PollIds |-> Idle]
    /\ client = NotRendered
    /\ table = NotRendered
    /\ graph = NotRendered
    /\ lastResponse = NoResponse
    /\ cpuCall = NoCall
    /\ memCall = NoCall
    /\ snapCall = NoCall
    /\ psCall \in {[st |-> "in", run |-> [ok |-> FALSE]]}
                  \cup {[st |-> "in", run |-> [ok |-> TRUE, table |-> t]] :
                          t \in PsTables}

\* getProcesses up to its await, index.ts:94-107: platform() and the start
\* of the command
StartGetProcesses ==
    /\ psCall.st = "in"
    /\ psCall' = [psCall EXCEPT !.st = "waiting"]
    /\ UNCHANGED <<prevCpuTimes, host, polls, lastResponse, cpuCall, memCall,
                   snapCall, clientVars>>

\* the command settles: the rest of getProcesses, index.ts:107-135
PsCommandSettles ==
    /\ psCall.st = "waiting"
    /\ LET exec == PsCommand(psCall.run)
       IN  psCall' = [st |-> "out", run |-> psCall.run, exec |-> exec,
                      result |-> getProcesses(exec)]
    /\ UNCHANGED <<prevCpuTimes, host, polls, lastResponse, cpuCall, memCall,
                   snapCall, clientVars>>

NextPs ==
    \/ StartGetProcesses
    \/ PsCommandSettles

SpecPs == InitPs /\ [][NextPs]_vars

(***************************************************************************)
(* One call of getSystemMetrics, for every cache it can find, both cpus()  *)
(* results of up to MaxCores cores, every platform and the outcomes of the *)
(* two commands.  The call waits for the memory command (on darwin and     *)
(* linux) and for the ps command, and reads and writes prevCpuTimes only   *)
(* after both (index.ts:244); while it waits, other requests sample and    *)
(* leave their readings in the cache.  snapCall.memExec and snapCall.psExec*)
(* are what the two commands are going to do, snapCall.sampled is what     *)
(* cpus() answers when the call samples.                                   *)
(***************************************************************************)
RECURSIVE CoreListsOfLength(_)
CoreListsOfLength(n) ==
    IF n = 0
    THEN {<<>>}
    ELSE {Append(c, r) : c \in CoreListsOfLength(n - 1),
                         r \in {Reading(100, 0, 50, 850, 0),
                                Reading(120, 0, 60, 900, 0)}}

CoreLists == UNION {CoreListsOfLength(n) : n \in 0..MaxCores}

\* the ps command fails, prints its header alone, or prints the header and
\* three lines
SnapPsExecResults ==
    PsExecResults \cup {[ok |-> TRUE, stdout |-> <<PsHeader>>]}

InitSnap ==
    /\ prevCpuTimes \in CoreLists
    /\ host \in [platform : Platforms, totalmem : {ServerTotalMem}]
    /\ polls = [p \in PollIds |-> Idle]
    /\ client = NotRendered
    /\ table = NotRendered
    /\ graph = NotRendered
    /\ lastResponse = NoResponse
    /\ cpuCall = NoCall
    /\ memCall = NoCall
    /\ psCall = NoCall
    /\ snapCall \in {[st |-> "in", cpuInfo |-> c, memExec |-> m, psExec |-> e,
                       sampled |-> d] :
                         c \in CoreLists,
                         m \in IF host.platform \in {"darwin", "linux"}
                               THEN ServerMemExecResults(host.platform)
                               ELSE {[ok |-> TRUE, stdout |-> "none"]},
                         e \in SnapPsExecResults, d \in CoreLists}

\* the memory query has settled or there was none: the call has its memory
\* figures and starts getProcesses, index.ts:234, up to its await of the ps
\* command; a throw of getMemoryInfo rejects the call
SnapAfterMemory(mem) ==
    IF mem.threw
    THEN [st |-> "out", cpuInfo |-> snapCall.cpuInfo,
          memExec |-> snapCall.memExec, psExec |-> snapCall.psExec,
          sampled |-> snapCall.sampled, baseline |-> prevCpuTimes,
          result |-> [threw |-> TRUE, cause |-> mem.cause,
                      cache |-> prevCpuTimes]]
    ELSE [st |-> "ps", cpuInfo |-> snapCall.cpuInfo,
          memExec |-> snapCall.memExec, psExec |-> snapCall.psExec,
          sampled |-> snapCall.sampled, memInfo |-> mem.value]

\* getSystemMetrics up to its first wait for a command: cpus() of
\* index.ts:232, then getMemoryInfo up to its execAsync, or, on a platform
\* without a query, through its fallback and on to getProcesses
SnapStart ==
    /\ snapCall.st = "in"
    /\ snapCall' =
           IF host.platform \in {"darwin", "linux"}
           THEN [snapCall EXCEPT !.st = "mem"]
           ELSE SnapAfterMemory(getMemoryInfo(host.platform, host.totalmem,
                                              snapCall.memExec, ServerFreeMem))
    /\ UNCHANGED <<prevCpuTimes, host, polls, lastResponse, cpuCall, memCall,
                   psCall, clientVars>>

\* the memory query settles: the rest of getMemoryInfo
SnapMemoryQueryDone ==
    /\ snapCall.st = "mem"
    /\ snapCall' = SnapAfterMemory(getMemoryInfo(host.platform, host.totalmem,
                                                 snapCall.memExec,
                                                 ServerFreeMem))
    /\ UNCHANGED <<prevCpuTimes, host, polls, lastResponse, cpuCall, memCall,
                   psCall, clientVars>>

\* another request reaches its getCpuUsage() while this call waits for a
\* command, and leaves its readings in the cache
OtherRequestSamples(cpuInfo) ==
    /\ snapCall.st \in {"mem", "ps"}
    /\ prevCpuTimes' = getCpuUsage(prevCpuTimes, cpuInfo).cache
    /\ prevCpuTimes' # prevCpuTimes
    /\ UNCHANGED <<host, polls, lastResponse, cpuCall, memCall, psCall,
                   snapCall, clientVars>>

\* the ps command settles: the rest of getProcesses, then index.ts:236-252,
\* all synchronous, with the cache as it is now
SnapProcessListDone ==
    /\ snapCall.st = "ps"
    /\ LET ps == getProcesses(snapCall.psExec)
           m == IF ps.threw
                THEN [threw |-> TRUE, cause |-> ps.cause,
                      cache |-> prevCpuTimes]
                ELSE BuildMetrics(prevCpuTimes, Len(snapCall.cpuInfo),
                                  snapCall.memInfo, ps.value, TRUE,
                                  [ok |-> TRUE, cpuInfo |-> snapCall.sampled])
       IN  /\ prevCpuTimes' = m.cache
           /\ snapCall' = [st |-> "out", cpuInfo |-> snapCall.cpuInfo,
                           memExec |-> snapCall.memExec,
                           psExec |-> snapCall.psExec,
                           sampled |-> snapCall.sampled,
                           baseline |-> prevCpuTimes, result |-> m]
    /\ UNCHANGED <<host, polls, lastResponse, cpuCall, memCall, psCall,
                   clientVars>>

NextSnap ==
    \/ SnapStart
    \/ SnapMemoryQueryDone
    \/ \E cpuInfo \in CoreLists : OtherRequestSamples(cpuInfo)
    \/ SnapProcessListDone

SpecSnap == InitSnap /\ [][NextSnap]_vars

(***************************************************************************)
(* The page: App (App.tsx) with its useSystemMetrics hook                  *)
(* (useSystemMetrics.ts) and the refresh select of the StatusBar           *)
(* (StatusBar.tsx).  React applies the state setters a handler calls       *)
(* between two awaits as one update, runs the cleanup and the effect of a  *)
(* changed dependency before the next event, and ignores the setters of an *)
(* unmounted component.  The snapshot a request gets is named by the       *)
(* number of the request.  The page is kept with a record of what has      *)
(* settled: the last request to settle and how, whether any fetch has      *)
(* settled, succeeded, failed.                                             *)
(***************************************************************************)
InitialRefreshRate == 1000

\* the select with a fifth option of ten seconds: a mutant of
\* RefreshOptions
RefreshOptionsTenSeconds == {500, 1000, 2000, 5000, 10000}

\* StatusBar.tsx:39-42, Number(e.target.value) of the four options
RefreshOptions == {500, 1000, 2000, 5000}

NullMetrics == [present |-> FALSE, request |-> 0]

\* response.json() of the answer to request n
Snapshot(n) == [present |-> TRUE, request |-> n]

NullError == [present |-> FALSE, message |-> ""]

ErrorOf(message) == [present |-> TRUE, message |-> message]

\* how the fetch of useSystemMetrics.ts:20 can settle, and the
\* response.json() of line 24
FetchOutcomes == {"ok", "httpError", "networkError"}

JsonOutcomes == {"parsed", "unparsable"}

\* err.message, useSystemMetrics.ts:22 and 28
MessageOf(outcome) ==
    IF outcome = "httpError" THEN "HTTP error: 500"
    ELSE IF outcome = "networkError" THEN "Failed to fetch"
    ELSE "Unexpected token"

setInterval(timers, id, period) == timers \cup {[id |-> id, period |-> period]}

\* a cleanup that does not clear: a mutant of clearInterval
clearIntervalForgotten(timers, id) == timers

clearInterval(timers, id) == {t \in timers : t.id # id}

\* fetchMetrics starting with setLoading(true): a mutant of IssueFetch
IssueFetchShowingLoading(c) ==
    [c EXCEPT !.fetches = @ \cup {[request |-> c.issued + 1, pc |-> "fetch"]},
              !.issued = @ + 1,
              !.loading = IF c.st = "mounted" THEN TRUE ELSE @]

\* useSystemMetrics.ts:18-20, fetchMetrics up to its first await
IssueFetch(c) ==
    [c EXCEPT !.fetches = @ \cup {[request |-> c.issued + 1, pc |-> "fetch"]},
              !.issued = @ + 1]

\* useSystemMetrics.ts:35-36, the effect
RunEffect(c) ==
    [IssueFetch(c) EXCEPT !.timers = setInterval(@, c.nextTimer, c.refreshRate),
                          !.interval = c.nextTimer,
                          !.nextTimer = @ + 1]

\* useSystemMetrics.ts:37, the cleanup of the effect
Cleanup(c) == [c EXCEPT !.timers = clearInterval(@, c.interval)]

\* the catch that also drops the metrics (setMetrics(null)): a mutant of
\* Failed
FailedDroppingMetrics(c, f, message) ==
    IF c.st = "mounted"
    THEN [c EXCEPT !.metrics = NullMetrics, !.error = ErrorOf(message),
                   !.loading = FALSE, !.fetches = @ \ {f}]
    ELSE [c EXCEPT !.fetches = @ \ {f}]

\* useSystemMetrics.ts:27-31, catch and finally
Failed(c, f, message) ==
    IF c.st = "mounted"
    THEN [c EXCEPT !.error = ErrorOf(message), !.loading = FALSE,
                   !.fetches = @ \ {f}]
    ELSE [c EXCEPT !.fetches = @ \ {f}]

\* useSystemMetrics.ts:25-26 and 29-31
Succeeded(c, f) ==
    IF c.st = "mounted"
    THEN [c EXCEPT !.metrics = Snapshot(f.request), !.error = NullError,
                   !.loading = FALSE, !.fetches = @ \ {f}]
    ELSE [c EXCEPT !.fetches = @ \ {f}]

\* the record of what has settled, after request f settled with outcome
Noted(c, f, outcome) ==
    [c EXCEPT !.last = [request |-> f.request, outcome |-> outcome],
              !.settledAny = TRUE,
              !.succeededAny = @ \/ outcome = "parsed",
              !.failedAny = @ \/ outcome # "parsed"]

\* App.tsx:16-42, what App renders
Screen(c) ==
    IF c.loading /\ ~c.metrics.present THEN "loading"
    ELSE IF c.error.present /\ ~c.metrics.present THEN "error"
    ELSE IF ~c.metrics.present THEN "nothing"
    ELSE "dashboard"

InitClient ==
    /\ prevCpuTimes = <<>>
    /\ host = [platform |-> "linux", totalmem |-> DefaultPageSize]
    /\ polls = [p \in PollIds |-> Idle]
    /\ client = NotRendered
    /\ table = NotRendered
    /\ graph = NotRendered
    /\ lastResponse = NoResponse
    /\ cpuCall = NoCall
    /\ memCall = NoCall
    /\ psCall = NoCall
    /\ snapCall = NoCall

ServerUnchanged ==
    UNCHANGED <<prevCpuTimes, host, polls, lastResponse, cpuCall, memCall,
                psCall, snapCall, table, graph>>

\* the first render of App, App.tsx:12-14 and useSystemMetrics.ts:14-16,
\* and the effect after it
Mount ==
    /\ client.st = "none"
    /\ client' = RunEffect(
           [st |-> "mounted", refreshRate |-> InitialRefreshRate,
            metrics |-> NullMetrics, error |-> NullError, loading |-> TRUE,
            timers |-> {}, interval |-> 0, nextTimer |-> 1, fetches |-> {},
            issued |-> 0, last |-> [request |-> 0, outcome |-> "none"],
            settledAny |-> FALSE, succeededAny |-> FALSE,
            failedAny |-> FALSE])
    /\ ServerUnchanged

\* the user picks another option of the select, StatusBar.tsx:37, which the
\* dashboard alone shows: setRefreshRate, then the cleanup and the effect
SelectRefreshRate(v) ==
    /\ client.st = "mounted"
    /\ Screen(client) = "dashboard"
    /\ v # client.refreshRate
    /\ client.issued < MaxFetches
    /\ client' = RunEffect(Cleanup([client EXCEPT !.refreshRate = v]))
    /\ ServerUnchanged

\* an interval timer of the page fires: fetchMetrics up to its await
TimerFires(t) ==
    /\ client.st # "none"
    /\ t \in client.timers
    /\ client.issued < MaxFetches
    /\ client' = IssueFetch(client)
    /\ ServerUnchanged

\* the fetch of request f settles, useSystemMetrics.ts:20-24
FetchSettles(f, outcome) ==
    /\ client.st # "none"
    /\ f \in client.fetches
    /\ f.pc = "fetch"
    /\ client' =
           IF outcome = "ok"
           THEN [client EXCEPT !.fetches =
                    (@ \ {f}) \cup {[request |-> f.request, pc |-> "json"]}]
           ELSE Noted(Failed(client, f, MessageOf(outcome)), f, outcome)
    /\ ServerUnchanged

\* response.json() of request f settles, useSystemMetrics.ts:24-31
JsonSettles(f, outcome) ==
    /\ client.st # "none"
    /\ f \in client.fetches
    /\ f.pc = "json"
    /\ client' =
           IF outcome = "parsed"
           THEN Noted(Succeeded(client, f), f, outcome)
           ELSE Noted(Failed(client, f, MessageOf(outcome)), f, outcome)
    /\ ServerUnchanged

\* the page goes away: the cleanup of the effect
Unmount ==
    /\ client.st = "mounted"
    /\ client' = Cleanup([client EXCEPT !.st = "unmounted"])
    /\ ServerUnchanged

\* the interval timers of the page and its requests in flight; none before
\* the first render
Timers == IF client.st = "none" THEN {} ELSE client.timers

Fetches == IF client.st = "none" THEN {} ELSE client.fetches

NextClient ==
    \/ Mount
    \/ \E v \in RefreshOptions : SelectRefreshRate(v)
    \/ \E t \in Timers : TimerFires(t)
    \/ \E f \in Fetches, o \in FetchOutcomes : FetchSettles(f, o)
    \/ \E f \in Fetches, o \in JsonOutcomes : JsonSettles(f, o)
    \/ Unmount

SpecClient == InitClient /\ [][NextClient]_vars

(***************************************************************************)
(* The graphs: CpuGraph (CpuGraph.tsx) and MemoryGraph (MemoryGraph.tsx),  *)
(* each with a history it extends in an effect.  A point is named by its   *)
(* arrival number at its graph, standing for its Date.now() and its        *)
(* values.  The dashboard mounts both graphs together (App.tsx:56-61), and *)
(* every snapshot brings a new cpuUsage array, so that the effect of       *)
(* CpuGraph runs for each; the effect of MemoryGraph runs when used or     *)
(* percent differ from the previous snapshot's.                            *)
(***************************************************************************)
HISTORY_LENGTH == 60

\* slice(0, HISTORY_LENGTH), the oldest points kept: a mutant of PushPoint
PushPointKeepingOldest(prev, newPoint) ==
    LET updated == Append(prev, newPoint)
    IN  IF Len(updated) > HISTORY_LENGTH
        THEN SubSeq(updated, 1, HISTORY_LENGTH)
        ELSE updated

\* CpuGraph.tsx:46-52 and MemoryGraph.tsx:43-49, the updater given to
\* setHistory; slice(-HISTORY_LENGTH) is the last HISTORY_LENGTH elements
PushPoint(prev, newPoint) ==
    LET updated == Append(prev, newPoint)
    IN  IF Len(updated) > HISTORY_LENGTH
        THEN SubSeq(updated, Len(updated) - HISTORY_LENGTH + 1, Len(updated))
        ELSE updated

\* CpuGraph.tsx:40-53 and MemoryGraph.tsx:36-50, one run of the effect of
\* graph g
RunGraphEffect(gr, g) ==
    [gr EXCEPT ![g] = [arrived |-> @.arrived + 1,
                       history |-> PushPoint(@.history, @.arrived + 1)]]

InitGraph ==
    /\ prevCpuTimes = <<>>
    /\ host = [platform |-> "linux", totalmem |-> DefaultPageSize]
    /\ polls = [p \in PollIds |-> Idle]
    /\ client = NotRendered
    /\ table = NotRendered
    /\ graph = NotRendered
    /\ lastResponse = NoResponse
    /\ cpuCall = NoCall
    /\ memCall = NoCall
    /\ psCall = NoCall
    /\ snapCall = NoCall

GraphUnchanged ==
    UNCHANGED <<prevCpuTimes, host, polls, lastResponse, cpuCall, memCall,
                psCall, snapCall, client, table>>

\* the first render of the dashboard: both graphs start with an empty
\* history (CpuGraph.tsx:38, MemoryGraph.tsx:34) and run their effect
MountGraphs ==
    /\ graph.st = "none"
    /\ graph' = RunGraphEffect(RunGraphEffect(
           [st |-> "shown",
            cpu |-> [arrived |-> 0, history |-> <<>>],
            mem |-> [arrived |-> 0, history |-> <<>>]], "cpu"), "mem")
    /\ GraphUnchanged

\* a further snapshot is rendered, with the same or with other memory
\* figures
SnapshotRendered(memChanged) ==
    /\ graph.st = "shown"
    /\ graph.cpu.arrived < MaxUpdates
    /\ graph' = IF memChanged
                 THEN RunGraphEffect(RunGraphEffect(graph, "cpu"), "mem")
                 ELSE RunGraphEffect(graph, "cpu")
    /\ GraphUnchanged

NextGraph ==
    \/ MountGraphs
    \/ \E memChanged \in BOOLEAN : SnapshotRendered(memChanged)

SpecGraph == InitGraph /\ [][NextGraph]_vars

(***************************************************************************)
(* The process table: ProcessTable (ProcessTable.tsx) with its sort state  *)
(* and its selected row; the filter is a property App passes down.  The    *)
(* table is kept with the last event it handled.                           *)
(***************************************************************************)
SortFields == {"pid", "user", "cpu", "mem", "command"}

NoPid == 0

Pids == 1..MaxPid

Filters == {"", "node", "root"}

Event(op, field, pid, text) == [op |-> op, field |-> field, pid |-> pid, text |-> text]

\* handleSort without setSortDirection('desc') for another field: a mutant
\* of handleSort
handleSortKeepingDirection(t, field) ==
    IF t.sortField = field
    THEN [t EXCEPT !.sortDirection = IF @ = "asc" THEN "desc" ELSE "asc"]
    ELSE [t EXCEPT !.sortField = field]

\* ProcessTable.tsx:14-21
handleSort(t, field) ==
    IF t.sortField = field
    THEN [t EXCEPT !.sortDirection = IF @ = "asc" THEN "desc" ELSE "asc"]
    ELSE [t EXCEPT !.sortField = field, !.sortDirection = "desc"]

InitTable ==
    /\ prevCpuTimes = <<>>
    /\ host = [platform |-> "linux", totalmem |-> DefaultPageSize]
    /\ polls = [p \in PollIds |-> Idle]
    /\ client = NotRendered
    /\ table = NotRendered
    /\ graph = NotRendered
    /\ lastResponse = NoResponse
    /\ cpuCall = NoCall
    /\ memCall = NoCall
    /\ psCall = NoCall
    /\ snapCall = NoCall

TableUnchanged ==
    UNCHANGED <<prevCpuTimes, host, polls, lastResponse, cpuCall, memCall,
                psCall, snapCall, client, graph>>

\* the first render of the table, ProcessTable.tsx:10-12, under the empty
\* filter of App.tsx:12
MountTable ==
    /\ table.st = "none"
    /\ table' = [st |-> "shown", sortField |-> "cpu", sortDirection |-> "desc",
                 selectedPid |-> NoPid, filter |-> "",
                 event |-> Event("mount", "", NoPid, "")]
    /\ TableUnchanged

\* a click on a column header, ProcessTable.tsx:103-131
ClickHeader(field) ==
    /\ table.st = "shown"
    /\ table' = [handleSort(table, field) EXCEPT
                    !.event = Event("handleSort", field, NoPid, "")]
    /\ TableUnchanged

\* a click on the row of a process, ProcessTable.tsx:141
ClickRow(pid) ==
    /\ table.st = "shown"
    /\ table' = [table EXCEPT
                    !.selectedPid = IF pid = @ THEN NoPid ELSE pid,
                    !.event = Event("selectRow", "", pid, "")]
    /\ TableUnchanged

\* the user edits the filter of the status bar, StatusBar.tsx:28, which
\* App passes to the table, App.tsx:69
FilterChanged(text) ==
    /\ table.st = "shown"
    /\ text # table.filter
    /\ table' = [table EXCEPT !.filter = text,
                              !.event = Event("filter", "", NoPid, text)]
    /\ TableUnchanged

NextTable ==
    \/ MountTable
    \/ \E field \in SortFields : ClickHeader(field)
    \/ \E pid \in Pids : ClickRow(pid)
    \/ \E text \in Filters : FilterChanged(text)

SpecTable == InitTable /\ [][NextTable]_vars

(***************************************************************************)
(* Properties of getCpuUsage, checked under SpecCpu.                       *)
(***************************************************************************)
\* r is 100a/b rounded to the nearest integer, a tie going up, unless the
\* double product lands below the tie, where it goes down
IsRoundPct(r, a, b) ==
    /\ b > 0
    /\ LET d == 2 * (r * b - 100 * a)
       IN  IF DoubleSide(a, b) = -1
           THEN d = -b
           ELSE -b < d /\ d <= b

\* the call has returned and found a cached reading for core 0
DeltaCall == cpuCall.st = "out" /\ Len(cpuCall.baseline) >= 1

\* the call has returned and found no cached reading for core 0
FirstCall == cpuCall.st = "out" /\ Len(cpuCall.baseline) = 0

TotalDiffOfCall == Total(cpuCall.cpuInfo[1]) - Total(cpuCall.baseline[1])

\* the four emitted percentages are the rounded shares of totalDiff
DeltaSharesRounded ==
    LET prev == cpuCall.baseline[1]
        cur == cpuCall.cpuInfo[1]
        out == cpuCall.usage[1]
    IN  /\ IsRoundPct(out.usage,
                      TotalDiffOfCall - (cur.idle - prev.idle),
                      TotalDiffOfCall)
        /\ IsRoundPct(out.user, cur.user - prev.user, TotalDiffOfCall)
        /\ IsRoundPct(out.system, cur.sys - prev.sys, TotalDiffOfCall)
        /\ IsRoundPct(out.idle, cur.idle - prev.idle, TotalDiffOfCall)

\* the call went from (100,0,50,850,0) to (120,0,60,900,0)
HostExampleCall ==
    /\ DeltaCall
    /\ cpuCall.baseline[1] = Reading(100, 0, 50, 850, 0)
    /\ cpuCall.cpuInfo[1] = Reading(120, 0, 60, 900, 0)

\* C1 as stated: for a core with a cached previous reading and
\* totalDiff > 0, getCpuUsage emits usage = round((totalDiff - idleDiff) /
\* totalDiff * 100), user = round(userDiff / totalDiff * 100), system =
\* round(sysDiff / totalDiff * 100) and idle = round(idleDiff / totalDiff *
\* 100), the diffs taken against the cached reading; (100,0,50,850,0) then
\* (120,0,60,900,0) gives usage 62.
C1_AsClaimed ==
    (DeltaCall /\ TotalDiffOfCall > 0) =>
        /\ DeltaSharesRounded
        /\ HostExampleCall => cpuCall.usage[1].usage = 62

\* C1 as amended: the same four rounded shares; (100,0,50,850,0) then
\* (120,0,60,900,0) has totalDiff 80 and idleDiff 50 and gives usage 38.
C1_DeltaUsageIsRoundedShare ==
    (DeltaCall /\ TotalDiffOfCall > 0) =>
        /\ DeltaSharesRounded
        /\ HostExampleCall =>
               /\ TotalDiffOfCall = 80
               /\ cpuCall.usage[1].usage = 38

C1_Witness ==
    /\ HostExampleCall
    /\ cpuCall.usage[1] =
           [core |-> 0, usage |-> 38, user |-> 25, system |-> 13, idle |-> 63]

\* C2: for a core with a cached previous reading and totalDiff <= 0
\* (identical consecutive samples included), getCpuUsage emits exactly
\* {usage: 0, user: 0, system: 0, idle: 100} and returns normally.
C2_NoProgressIsIdle ==
    (DeltaCall /\ TotalDiffOfCall <= 0) =>
        cpuCall.usage =
            <<[core |-> 0, usage |-> 0, user |-> 0, system |-> 0, idle |-> 100]>>

C2_Witness ==
    /\ DeltaCall
    /\ cpuCall.baseline = cpuCall.cpuInfo
    /\ Total(cpuCall.cpuInfo[1]) > 0
    /\ cpuCall.usage[1].usage = 0
    /\ cpuCall.usage[1].idle = 100

\* C4: on the first sample of a core (no cached reading), for every reading
\* of non-negative counters, usage is round((total - idle) / total * 100) of
\* that reading and is a number in [0,100].
C4_FirstSampleUsageInRange ==
    FirstCall =>
        LET cur == cpuCall.cpuInfo[1]
            out == cpuCall.usage[1]
        IN  /\ IsRoundPct(out.usage, Total(cur) - cur.idle, Total(cur))
            /\ out.usage \in 0..100

\* none of the five counters of core 0 is lower in the reading than in the
\* cached one
NoCounterDecreased ==
    LET prev == cpuCall.baseline[1]
        cur == cpuCall.cpuInfo[1]
    IN  /\ cur.user >= prev.user /\ cur.nice >= prev.nice
        /\ cur.sys >= prev.sys /\ cur.idle >= prev.idle
        /\ cur.irq >= prev.irq

\* C18: for a sample computed from the delta of two consecutive readings in
\* which none of the five counters decreased, the emitted usage, user,
\* system and idle are each an integer in [0,100].
C18_MonotoneDeltaInRange ==
    (DeltaCall /\ NoCounterDecreased) =>
        LET out == cpuCall.usage[1]
        IN  /\ out.usage \in 0..100
            /\ out.user \in 0..100
            /\ out.system \in 0..100
            /\ out.idle \in 0..100

\* a delta over 40 ticks, 23 of them user time and none of them system time
C18_Witness ==
    /\ DeltaCall
    /\ NoCounterDecreased
    /\ cpuCall.baseline[1] = Reading(120, 0, 60, 900, 0)
    /\ cpuCall.cpuInfo[1] = Reading(143, 0, 60, 917, 0)
    /\ cpuCall.usage[1] =
           [core |-> 0, usage |-> 57, user |-> 57, system |-> 0, idle |-> 43]

(***************************************************************************)
(* Properties of getMemoryInfo, checked under SpecMem.                     *)
(***************************************************************************)
MemReturned == memCall.st = "out"

\* the platform-specific query failed: the command did, or its output has
\* no line the parser recognises
MemQueryFailed ==
    \/ ~memCall.exec.ok
    \/ /\ host.platform = "darwin"
       /\ memCall.exec.stdout.free = <<>>
       /\ memCall.exec.stdout.inactive = <<>>
       /\ memCall.exec.stdout.purgeable = <<>>
       /\ memCall.exec.stdout.speculative = <<>>
    \/ /\ host.platform = "linux"
       /\ memCall.exec.stdout.memAvailable = <<>>

\* C7: getMemoryInfo uses the fallback used = total - freemem() whenever the
\* platform-specific query fails (command unavailable, or output without a
\* recognisable page or MemAvailable line) and whenever the platform is
\* neither darwin nor linux.
C7_FallbackWheneverQueryFails ==
    (MemReturned /\ (MemQueryFailed \/ host.platform \notin {"darwin", "linux"}))
        => /\ memCall.info.used = host.totalmem - memCall.freemem
           /\ memCall.info.free = memCall.freemem

\* C9: on every strategy the returned percent is round(used / total * 100)
\* of the used and total of the same MemoryInfo; used half of total gives 50.
C9_PercentIsRoundedShare ==
    MemReturned =>
        /\ IsRoundPct(memCall.info.percent, memCall.info.used, memCall.info.total)
        /\ (2 * memCall.info.used = memCall.info.total
                => memCall.info.percent = 50)

C9_Witness ==
    /\ MemReturned
    /\ host.platform = "darwin"
    /\ memCall.exec.ok
    /\ memCall.info.free > 0
    /\ 2 * memCall.info.used = memCall.info.total
    /\ memCall.info.percent = 50

\* C10: in every MemoryInfo returned, on every strategy path,
\* used + free = total.
C10_UsedPlusFreeIsTotal ==
    MemReturned => memCall.info.used + memCall.info.free = memCall.info.total

C10_Witness ==
    /\ MemReturned
    /\ host.platform = "linux"
    /\ memCall.exec.ok
    /\ memCall.info.free = MemAvailableBytes(memCall.exec.stdout)
    /\ memCall.info.free > 0
    /\ memCall.info.used > 0
    /\ memCall.info.used + memCall.info.free = host.totalmem

\* C11: in every MemoryInfo returned by getMemoryInfo, total, free and used
\* are non-negative and percent is an integer in 0..100, for every strategy
\* and every output of the external memory query.
C11_MemoryInfoInRange ==
    MemReturned =>
        /\ memCall.info.total >= 0
        /\ memCall.info.free >= 0
        /\ memCall.info.used >= 0
        /\ memCall.info.percent \in 0..100

(***************************************************************************)
(* Properties of getProcesses, checked under SpecPs.                       *)
(***************************************************************************)
\* the command answered and getProcesses has returned or thrown
PsAnswered == psCall.st = "out" /\ psCall.exec.ok

HasEnoughTokens(line) == line.tokens >= 11

\* the lines after the first that have at least 11 tokens, in order
KeptLines == SelectSeq(Tail(psCall.exec.stdout), HasEnoughTokens)

\* C15: getProcesses discards the first output line (header) and every
\* later line with fewer than 11 whitespace-separated tokens, and produces
\* exactly one ProcessInfo for each remaining line, in the order of the
\* command's output, without throwing on a malformed line.
C15_OneProcessPerWellFormedLine ==
    PsAnswered =>
        /\ ~psCall.result.threw
        /\ Len(psCall.result.value) = Len(KeptLines)
        /\ \A i \in 1..Len(KeptLines) :
               psCall.result.value[i].pid = KeptLines[i].pid

\* header, a row of 11 tokens, a row of 12 tokens: two processes, in that
\* order
C15_Witness ==
    /\ PsAnswered
    /\ psCall.exec.stdout =
           <<PsHeader, [tokens |-> 11, pid |-> 2], [tokens |-> 12, pid |-> 1]>>
    /\ psCall.result.value = <<[pid |-> 2], [pid |-> 1]>>

\* C16: the process list returned by getProcesses, and therefore processes
\* in every snapshot, never has more than 50 entries.
C16_AtMostFiftyProcesses ==
    psCall.st = "out" =>
        /\ ~psCall.result.threw
        /\ Len(psCall.result.value) <= 50

\* ps printed a header and 60 rows; the list has the 49 rows head let through
C16_Witness ==
    /\ PsAnswered
    /\ Len(psCall.run.table) = 61
    /\ Len(psCall.result.value) = 49
    /\ psCall.result.value[49].pid = 49

(***************************************************************************)
(* Properties of the server, checked under Spec.                           *)
(***************************************************************************)
\* the readings cpus() hands to the server
ServerReadings == UNION {{c[i] : i \in 1..Len(c)} : c \in ServerCpuInfos}

\* out is what one core's sample must be for the reading now and the
\* reading before
IsDeltaOf(out, now, before) ==
    LET totalDiff == Total(now) - Total(before)
    IN  IF totalDiff > 0
        THEN /\ IsRoundPct(out.usage, totalDiff - (now.idle - before.idle),
                           totalDiff)
             /\ IsRoundPct(out.user, now.user - before.user, totalDiff)
             /\ IsRoundPct(out.system, now.sys - before.sys, totalDiff)
             /\ IsRoundPct(out.idle, now.idle - before.idle, totalDiff)
        ELSE /\ out.usage = 0 /\ out.user = 0
             /\ out.system = 0 /\ out.idle = 100

IsFirstOf(out, now) ==
    /\ IsRoundPct(out.usage, Total(now) - now.idle, Total(now))
    /\ IsRoundPct(out.user, now.user, Total(now))
    /\ IsRoundPct(out.system, now.sys, Total(now))
    /\ IsRoundPct(out.idle, now.idle, Total(now))

\* this step is the synchronous tail of a poll that answered 200
SamplingStep ==
    /\ lastResponse'.status = 200
    /\ \E p \in PollIds : polls[p].pc = "ps" /\ polls'[p].pc = "idle"

\* C3: polls never observe a half-updated cache: whatever the interleaving
\* of overlapping requests, a poll reads prevCpuTimes, computes and
\* overwrites, for all its cores, in one step; no other step touches the
\* cache; so every baseline of a delta is a complete reading that one
\* earlier sample call wrote.
C3_CacheAccessIsOneStep ==
    /\ [](\A i \in 1..Len(prevCpuTimes) : prevCpuTimes[i] \in ServerReadings)
    /\ [][/\ prevCpuTimes' # prevCpuTimes => SamplingStep
          /\ SamplingStep =>
               LET out == lastResponse'.metrics.cpuUsage
                   n == Len(out)
               IN  /\ Len(prevCpuTimes') =
                          IF n > Len(prevCpuTimes) THEN n ELSE Len(prevCpuTimes)
                   /\ \A i \in 1..Len(prevCpuTimes') :
                          IF i > n
                          THEN prevCpuTimes'[i] = prevCpuTimes[i]
                          ELSE /\ prevCpuTimes'[i] \in ServerReadings
                               /\ IF i <= Len(prevCpuTimes)
                                  THEN IsDeltaOf(out[i], prevCpuTimes'[i],
                                                 prevCpuTimes[i])
                                  ELSE IsFirstOf(out[i], prevCpuTimes'[i])]_vars

\* a poll answered with a delta of 38 for core 0 and a first sample for
\* core 1 while another poll was waiting for its ps command
C3_Witness ==
    /\ lastResponse.status = 200
    /\ Len(lastResponse.metrics.cpuUsage) = 2
    /\ lastResponse.metrics.cpuUsage[1].usage = 38
    /\ prevCpuTimes[1] = Reading(120, 0, 60, 900, 0)
    /\ \E p \in PollIds : polls[p].pc = "ps"

\* C5: when the raw CPU counters or the host facts cannot be read during a
\* poll, the request fails as a whole: the answer carries no metrics, the
\* cache is left as it was, and a later poll can succeed.
C5_FailedPollLeavesCache ==
    [][lastResponse'.status = 500 =>
           /\ prevCpuTimes' = prevCpuTimes
           /\ DOMAIN lastResponse' = {"status", "cause"}
           /\ lastResponse'.cause \in {"cpus", "hostFacts"}]_vars

\* a poll answered 200 with a delta right after another was rejected
C5_Witness ==
    /\ lastResponse.status = 200
    /\ lastResponse.afterRejection
    /\ Len(lastResponse.metrics.cpuUsage) >= 1
    /\ lastResponse.metrics.cpuUsage[1].usage = 38

\* C6: when the ps command fails, getProcesses returns the empty list
\* instead of throwing, and the poll still answers a full snapshot with the
\* CPU and memory values, processes = [] and processCount = 0.
C6_PsFailureGivesEmptyList ==
    /\ lastResponse.status = 500 => lastResponse.cause # "ps"
    /\ (lastResponse.status = 200 /\ ~lastResponse.psOk) =>
           LET m == lastResponse.metrics
           IN  /\ m.processes = <<>>
               /\ m.processCount = 0
               /\ Len(m.cpuUsage) >= 1
               /\ m.totalMem = host.totalmem
               /\ m.usedMem = m.totalMem - m.freeMem

C6_Witness ==
    /\ lastResponse.status = 200
    /\ ~lastResponse.psOk
    /\ lastResponse.metrics.processes = <<>>
    /\ lastResponse.metrics.processCount = 0
    /\ lastResponse.metrics.cpuUsage[1].usage = 38
    /\ lastResponse.metrics.memPercent = 50

\* C8: a failure of the external memory query is never propagated:
\* getMemoryInfo returns a MemoryInfo and the poll goes on to the process
\* listing and the CPU sampling.
C8_MemoryFailureNotPropagated ==
    /\ lastResponse.status = 500 => lastResponse.cause # "memory"
    /\ \A p \in PollIds :
           polls[p].pc = "ps" =>
               /\ polls[p].memInfo.total = host.totalmem
               /\ polls[p].memInfo.used
                      = polls[p].memInfo.total - polls[p].memInfo.free
               /\ ~polls[p].memOk => polls[p].memInfo.free = ServerFreeMem
    /\ (lastResponse.status = 200 /\ ~lastResponse.memOk) =>
           /\ lastResponse.metrics.freeMem = ServerFreeMem
           /\ Len(lastResponse.metrics.cpuUsage) >= 1

C8_Witness ==
    /\ lastResponse.status = 200
    /\ ~lastResponse.memOk
    /\ host.platform \in {"darwin", "linux"}
    /\ lastResponse.metrics.usedMem = host.totalmem - ServerFreeMem
    /\ Len(lastResponse.metrics.processes) = 2
    /\ Len(lastResponse.metrics.cpuUsage) >= 1

\* C14: in every snapshot, cpuCount and cpuModel are derived from the same
\* per-core reading that the CPU sampler uses in that poll (one query per
\* poll), so cpuCount equals the number of entries in cpuUsage.
C14_CpuCountIsUsageLength ==
    lastResponse.status = 200 =>
        lastResponse.metrics.cpuCount = Len(lastResponse.metrics.cpuUsage)

\* this step is the synchronous tail of poll p, answering with a snapshot
TailOf(p) ==
    /\ polls[p].pc = "ps"
    /\ polls'[p].pc = "idle"
    /\ lastResponse'.status = 200

\* C12: every request to /api/metrics re-runs the memory, process and CPU
\* collectors: each response contains values collected after that request
\* was received, and no collected value or payload from an earlier request is
\* reused (the CPU baseline cache is the only state carried between
\* requests).  A snapshot is made of the memory figures its own poll
\* collected, of what the ps command of this poll printed and of a CPU
\* sample taken now against the cache; a poll that has answered keeps
\* nothing.
C12_EveryPollCollectsAgain ==
    [][\A p \in PollIds :
          /\ polls'[p].pc = "idle" => polls'[p] = Idle
          /\ (polls[p].pc = "mem" /\ polls'[p].pc = "ps") =>
                 \E exec \in ServerMemExecResults(host.platform) :
                     polls'[p].memInfo =
                         getMemoryInfo(host.platform, host.totalmem, exec,
                                       ServerFreeMem).value
          /\ TailOf(p) =>
                 LET m == lastResponse'.metrics
                 IN  /\ m.totalMem = polls[p].memInfo.total
                     /\ m.freeMem = polls[p].memInfo.free
                     /\ m.usedMem = polls[p].memInfo.used
                     /\ m.memPercent = polls[p].memInfo.percent
                     /\ \E exec \in PsExecResults :
                            /\ lastResponse'.psOk = exec.ok
                            /\ m.processes = getProcesses(exec).value
                     /\ \E c \in ServerCpuInfos :
                            /\ m.cpuUsage = getCpuUsage(prevCpuTimes, c).usage
                            /\ prevCpuTimes' = getCpuUsage(prevCpuTimes, c).cache
      ]_vars

\* a second snapshot: a delta for core 0, a process list and the memory
\* figures of a query that failed, with no poll in flight
C12_Witness ==
    /\ lastResponse.status = 200
    /\ \A p \in PollIds : polls[p] = Idle
    /\ lastResponse.metrics.cpuUsage[1].usage = 38
    /\ Len(lastResponse.metrics.processes) = 2
    /\ ~lastResponse.memOk
    /\ lastResponse.metrics.freeMem = ServerFreeMem

(***************************************************************************)
(* Properties of the routes, checked under SpecFetch.                      *)
(***************************************************************************)
\* the last response answers a request that is not a poll
IsOtherAnswer(r) == "request" \in DOMAIN r

\* JSON.stringify({variables}) for a server process whose environment is
\* PATH=/usr/bin and API_KEY=secret
ProcessEnvJson ==
    "{\"variables\":[{\"name\":\"PATH\",\"value\":\"/usr/bin\"},{\"name\":\"API_KEY\",\"value\":\"secret\"}]}"

\* C13: a request to the environment-inspection endpoint
\* (/api/environment) returns the full set of process environment variables
\* as name/value pairs, unfiltered.
C13_EnvironmentEndpointReturnsAll ==
    (/\ IsOtherAnswer(lastResponse)
     /\ lastResponse.request =
            [method |-> "GET", pathname |-> "/api/environment"]) =>
        /\ lastResponse.status = 200
        /\ lastResponse.body = ProcessEnvJson

\* C20: requests to /api/health, OPTIONS requests and requests to unknown
\* paths invoke none of the collectors and leave the previous-reading cache
\* unchanged; only /api/metrics can change it.
C20_OnlyMetricsTouchesCache ==
    [][/\ (IsOtherAnswer(lastResponse') /\ lastResponse' # lastResponse) =>
              /\ prevCpuTimes' = prevCpuTimes
              /\ polls' = polls
       /\ prevCpuTimes' # prevCpuTimes =>
              /\ ~IsOtherAnswer(lastResponse')
              /\ \E p \in PollIds : TailOf(p)
      ]_vars

\* the health route answered while the cache held two cores and a poll was
\* waiting for its memory query
C20_Witness ==
    /\ IsOtherAnswer(lastResponse)
    /\ lastResponse.request = [method |-> "GET", pathname |-> "/api/health"]
    /\ lastResponse.status = 200
    /\ Len(prevCpuTimes) = 2
    /\ \E p \in PollIds : polls[p].pc = "mem"

(***************************************************************************)
(* Properties of one snapshot, checked under SpecSnap.                     *)
(***************************************************************************)
SnapReturned == snapCall.st = "out" /\ ~snapCall.result.threw

\* C17: in every snapshot processCount equals the number of entries in
\* processes; in particular a process-command output containing only the
\* header line gives processes == [] and processCount == 0.
C17_ProcessCountIsLength ==
    SnapReturned =>
        LET m == snapCall.result.value
        IN  /\ m.processCount = Len(m.processes)
            /\ (snapCall.psExec.ok /\ Len(snapCall.psExec.stdout) = 1) =>
                   /\ m.processes = <<>>
                   /\ m.processCount = 0

\* the header alone, with an 11-token header line
C17_Witness ==
    /\ SnapReturned
    /\ snapCall.psExec.ok
    /\ snapCall.psExec.stdout = <<[tokens |-> 11, pid |-> 0]>>
    /\ snapCall.result.value.processes = <<>>
    /\ snapCall.result.value.processCount = 0

\* C19: cpuUsage in every snapshot has exactly one entry per core reported
\* by the OS at sample time, ordered by index, and the entry at position i
\* has core == i (positions counted from 0, as the code's indexes are).
C19_OneEntryPerCoreInOrder ==
    SnapReturned =>
        LET out == snapCall.result.value.cpuUsage
        IN  /\ Len(out) = Len(snapCall.sampled)
            /\ \A i \in 1..Len(out) : out[i].core = i - 1

\* two cores sampled with one cached: a delta for core 0, a first sample for
\* core 1
C19_Witness ==
    /\ SnapReturned
    /\ Len(snapCall.baseline) = 1
    /\ Len(snapCall.sampled) = 2
    /\ snapCall.result.value.cpuUsage[1].core = 0
    /\ snapCall.result.value.cpuUsage[1].usage = 38
    /\ snapCall.result.value.cpuUsage[2].core = 1
    /\ snapCall.result.value.cpuUsage[2].usage = 15

(***************************************************************************)
(* Properties of the sampler's cache over time, checked under SpecSampler  *)
(* and SpecOs.                                                             *)
(***************************************************************************)
\* C22: the previous-reading cache starts empty, is never cleared and never
\* loses an entry: after any sequence of sample calls, each call leaves
\* cache[i] equal to the reading it fetched for every core i it reported,
\* leaves entries of indexes it did not report unchanged, and the set of
\* cached indexes only grows.
C22_CacheKeepsLastReadings ==
    /\ prevCpuTimes = <<>>
    /\ [](cpuCall.st = "out" =>
            LET n == Len(cpuCall.cpuInfo)
                b == Len(cpuCall.baseline)
            IN  /\ Len(prevCpuTimes) = IF n > b THEN n ELSE b
                /\ \A i \in 1..n : prevCpuTimes[i] = cpuCall.cpuInfo[i]
                /\ \A i \in (n + 1)..b : prevCpuTimes[i] = cpuCall.baseline[i])
    /\ [][Len(prevCpuTimes') >= Len(prevCpuTimes)]_vars

\* a call that reported one core when two were cached: entry 0 replaced,
\* entry 1 kept
C22_Witness ==
    /\ cpuCall.st = "out"
    /\ Len(cpuCall.baseline) = 2
    /\ Len(cpuCall.cpuInfo) = 1
    /\ cpuCall.baseline[1] # cpuCall.cpuInfo[1]
    /\ prevCpuTimes = <<cpuCall.cpuInfo[1], cpuCall.baseline[2]>>

\* C23: over the lifetime of the server process the bootstrap
\* (single-reading) computation is used at most once per core index: after
\* the first completed sample that reported core i, every later sample for
\* core i is computed as a delta against the cached reading.
C23_BootstrapOncePerCore ==
    cpuCall.st = "out" =>
        \A i \in 1..Len(cpuCall.cpuInfo) :
            IF i <= cpuCall.reported
            THEN /\ i <= Len(cpuCall.baseline)
                 /\ IsDeltaOf(cpuCall.usage[i], cpuCall.cpuInfo[i],
                              cpuCall.baseline[i])
            ELSE IsFirstOf(cpuCall.usage[i], cpuCall.cpuInfo[i])

\* core 0 sampled again with the reading it had: the no-progress sample, not
\* the estimate of the first run; core 1 sampled for the first time
C23_Witness ==
    /\ cpuCall.st = "out"
    /\ cpuCall.reported = 1
    /\ Len(cpuCall.cpuInfo) = 2
    /\ cpuCall.cpuInfo[1] = cpuCall.baseline[1]
    /\ cpuCall.usage[1].idle = 100
    /\ cpuCall.usage[2].usage = 15

\* no counter of b is lower than in a
NoLower(a, b) ==
    /\ b.user >= a.user /\ b.nice >= a.nice /\ b.sys >= a.sys
    /\ b.idle >= a.idle /\ b.irq >= a.irq

\* this step is the synchronous tail of poll p
OsTailOf(p) == polls[p].pc = "ps" /\ polls'[p].pc = "idle"

\* C24: for any interleaving of overlapping /api/metrics requests, the
\* baseline a poll uses for core i is the reading captured by the most
\* recent earlier sample call (in cache-access order, regardless of which
\* request arrived first), the reading it stores was captured no earlier
\* than that baseline, and so, when OS counters never decrease, cached
\* counters never decrease.
C24_BaselineIsLatestSample ==
    [][/\ \A i \in 1..Len(prevCpuTimes) :
              /\ i <= Len(prevCpuTimes')
              /\ NoLower(prevCpuTimes[i], prevCpuTimes'[i])
       /\ \A p \in PollIds :
              OsTailOf(p) =>
                  /\ prevCpuTimes' = host.cpus
                  /\ lastResponse'.sampled = host.cpus
                  /\ IF lastResponse.status = 200
                     THEN /\ NoLower(lastResponse.sampled[1], host.cpus[1])
                          /\ IsDeltaOf(lastResponse'.cpuUsage[1], host.cpus[1],
                                       lastResponse.sampled[1])
                     ELSE IsFirstOf(lastResponse'.cpuUsage[1], host.cpus[1])
      ]_vars

\* a poll that arrived later has sampled, two ticks after it arrived, while
\* a poll that arrived before it still waits for its ps command
C24_Witness ==
    /\ lastResponse.status = 200
    /\ prevCpuTimes = lastResponse.sampled
    /\ Total(lastResponse.sampled[1]) = Total(lastResponse.arrived[1]) + 2
    /\ \E q \in PollIds :
           /\ polls[q].pc = "ps"
           /\ Total(polls[q].cpuInfo[1]) < Total(lastResponse.arrived[1])

(***************************************************************************)
(* Properties of the page, checked under SpecClient.                       *)
(***************************************************************************)

\* C21: the client's polling interval is always one of 500, 1000, 2000 or
\* 5000 ms: it starts at 1000, every change made through the status bar
\* selects one of the four, and the interval timers run at these periods.
C21_RefreshRateInOptions ==
    /\ [](client.st # "none" =>
            /\ client.refreshRate \in {500, 1000, 2000, 5000}
            /\ \A t \in client.timers : t.period \in {500, 1000, 2000, 5000})
    /\ [][client.st = "none" /\ client'.st = "mounted" =>
            client'.refreshRate = 1000]_vars

C21_Witness ==
    /\ client.st = "mounted"
    /\ client.refreshRate = 5000
    /\ \E t \in client.timers : t.period = 5000

\* C25: when fetches overlap, an older request's response never overwrites
\* the metrics of a more recently issued request: once all responses have
\* arrived (none of them a failure), metrics holds the response of the
\* latest issued request.
C25_LatestRequestWins ==
    (/\ client.st = "mounted"
     /\ client.issued > 0
     /\ client.fetches = {}
     /\ ~client.failedAny)
    => client.metrics = Snapshot(client.issued)

\* C26: a failed fetch (network error, non-OK HTTP status or unparsable
\* body) sets error and leaves the previously fetched metrics unchanged; a
\* successful fetch replaces metrics by its response and resets error to
\* null.
C26_FailureKeepsMetrics ==
    [][(/\ client.st = "mounted"
        /\ client'.st = "mounted"
        /\ client'.last # client.last)
       => IF client'.last.outcome = "parsed"
          THEN /\ client'.metrics = Snapshot(client'.last.request)
               /\ client'.error = NullError
          ELSE /\ client'.error.present
               /\ client'.metrics = client.metrics]_vars

C26_Witness ==
    /\ client.st = "mounted"
    /\ client.last.outcome = "unparsable"
    /\ client.metrics.present
    /\ client.error.present

\* C27: the display state only moves forward: loading is true until the
\* first fetch settles and false ever after; metrics, once non-null, is
\* never reset to null; the loading screen shows only before the first
\* fetch settles, the full-page error screen only while no fetch has ever
\* succeeded, and the dashboard, once shown, is never left.
C27_DisplayMovesForward ==
    /\ [](client.st = "mounted" =>
            /\ client.loading <=> ~client.settledAny
            /\ client.metrics.present <=> client.succeededAny
            /\ Screen(client) = "loading" => ~client.settledAny
            /\ Screen(client) = "error" => ~client.succeededAny)
    /\ [][(client.st = "mounted" /\ client'.st = "mounted") =>
            /\ ~client.loading => ~client'.loading
            /\ client.metrics.present => client'.metrics.present
            /\ Screen(client) = "dashboard" => Screen(client') = "dashboard"]_vars

C27_Witness ==
    /\ client.st = "mounted"
    /\ Screen(client) = "dashboard"
    /\ client.error.present
    /\ client.fetches # {}

\* C28: while the hook is mounted exactly one interval timer is active and
\* its period is the current refreshRate; mounting or changing refreshRate
\* issues one immediate fetch and starts a new timer, the previous timer
\* being cleared; after unmount no timer remains.
C28_OneTimerAtCurrentRate ==
    /\ [](client.st = "mounted" =>
            client.timers = {[id |-> client.interval,
                              period |-> client.refreshRate]})
    /\ [](client.st = "unmounted" => client.timers = {})
    /\ [][(/\ client.st = "mounted"
            /\ client'.st = "mounted"
            /\ client'.refreshRate # client.refreshRate)
           => /\ client'.issued = client.issued + 1
              /\ [request |-> client'.issued, pc |-> "fetch"] \in client'.fetches
              /\ client'.interval # client.interval]_vars
    /\ [][(client.st = "none" /\ client'.st = "mounted")
           => /\ client'.issued = 1
              /\ client'.fetches = {[request |-> 1, pc |-> "fetch"]}]_vars

C28_Witness ==
    /\ client.st = "mounted"
    /\ client.refreshRate = 2000
    /\ client.timers = {[id |-> 2, period |-> 2000]}

(***************************************************************************)
(* Properties of the graphs, checked under SpecGraph.                      *)
(***************************************************************************)

\* the most recent Min(n, HISTORY_LENGTH) of n points, in arrival order
MostRecent(n) ==
    LET k == IF n < 60 THEN n ELSE 60
    IN  [i \in 1..k |-> n - k + i]

\* C29: the history arrays of CpuGraph and MemoryGraph never hold more than
\* 60 points: after n updates the history is the most recent min(n, 60)
\* points in arrival order.
C29_HistoryIsLastSixty ==
    graph.st = "shown" =>
        \A g \in {"cpu", "mem"} :
            /\ Len(graph[g].history) <= 60
            /\ graph[g].history = MostRecent(graph[g].arrived)

C29_Witness ==
    /\ graph.st = "shown"
    /\ graph.cpu.arrived = 62
    /\ graph.cpu.history[1] = 3
    /\ graph.mem.arrived = 61
    /\ Len(graph.mem.history) = 60

(***************************************************************************)
(* Properties of the process table, checked under SpecTable.               *)
(***************************************************************************)

\* C30: the sort state starts at (cpu, desc); handleSort(f) with f the
\* current sort field toggles the direction and keeps the field, with
\* another f sets the field to f and the direction to desc; no other action
\* changes the sort state.
C30_SortStateChangesOnlyByHandleSort ==
    /\ [][(table.st = "none" /\ table'.st = "shown") =>
            table'.sortField = "cpu" /\ table'.sortDirection = "desc"]_vars
    /\ [][(table.st = "shown" /\ table'.st = "shown") =>
            IF table'.event.op = "handleSort"
            THEN IF table'.event.field = table.sortField
                 THEN /\ table'.sortField = table.sortField
                      /\ table'.sortDirection # table.sortDirection
                      /\ table'.sortDirection \in {"asc", "desc"}
                 ELSE /\ table'.sortField = table'.event.field
                      /\ table'.sortDirection = "desc"
            ELSE /\ table'.sortField = table.sortField
                 /\ table'.sortDirection = table.sortDirection]_vars

C30_Witness ==
    /\ table.st = "shown"
    /\ table.sortField = "pid"
    /\ table.sortDirection = "asc"
    /\ table.selectedPid # NoPid
    /\ table.event.op = "handleSort"

====
